---- MODULE Spec2Model ----
(***************************************************************************)
(* A model of the Shopify-Insights service: the scraper of app/scraper.py  *)
(* (ShopifyScraper), the request handler of app/main.py and the            *)
(* persistence function of app/crud.py.                                    *)
(*                                                                         *)
(* A storefront is a value `site`: what its catalog feed answers and what  *)
(* every page of it holds.  A run of the scraper is a record that moves    *)
(* from one await (a fetch, the closing of the client) to the next; every  *)
(* action is the code between two awaits.                                  *)
(***************************************************************************)
EXTENDS Integers, Sequences, FiniteSets, TLC

VARIABLES
    site,     \* the storefront the runs fetch from
    runs,     \* the runs of the scraper, one per request
    client,   \* the state of each run's httpx.AsyncClient
    db,       \* the tables brands and products
    saved     \* per address, the catalog last handed to save_brand_insights

vars == <<site, runs, client, db, saved>>

(***************************************************************************)
(* Bounds of the model.                                                    *)
(***************************************************************************)
MaxEntries == 2     \* entries of a catalog feed
MaxItems == 3       \* accordion candidates of an FAQ page
MaxLinks == 2       \* question links of an FAQ page
MaxCatalog == 2     \* products of a record handed to save_brand_insights
MaxRowId == 5       \* the largest id of a row of the products table
MaxSocial == 3      \* links to social networks on a homepage
MaxAnchors == 3     \* links to pages of the store on a homepage
MaxPhones == 2      \* matches of the phone pattern in a homepage

(***************************************************************************)
(* Optional values: None is the empty sequence, Some(x) a sequence of one. *)
(***************************************************************************)
None == <<>>

Some(x) == <<x>>

IsSome(o) == Len(o) = 1

RunIds == {1, 2}

(***************************************************************************)
(* Exceptions.  Ancestors(e) is the set of classes an exception of class e *)
(* is an instance of; an `except C` clause catches e iff C is one of them. *)
(***************************************************************************)
Ancestors(e) ==
    CASE e = "ConnectError" -> {"ConnectError", "TransportError", "RequestError", "HTTPError", "Exception"}
      [] e = "UnsupportedProtocol" -> {"UnsupportedProtocol", "TransportError", "RequestError", "HTTPError", "Exception"}
      [] e = "HTTPStatusError" -> {"HTTPStatusError", "HTTPError", "Exception"}
      [] e = "InvalidURL" -> {"InvalidURL", "Exception"}
      [] e = "JSONDecodeError" -> {"JSONDecodeError", "ValueError", "Exception"}
      [] e = "ValidationError" -> {"ValidationError", "ValueError", "Exception"}
      [] e = "ValueError" -> {"ValueError", "Exception"}
      [] e = "HTTPException" -> {"HTTPException", "Exception"}
      [] e = "IntegrityError" -> {"IntegrityError", "Exception"}
      [] OTHER -> {e, "Exception"}

IsInstance(e, classes) == e # "none" /\ Ancestors(e) \cap classes # {}

(***************************************************************************)
(* Addresses.  An href is [host, path, query]; a relative href has host "".*)
(* A path is its sequence of segments.                                     *)
(***************************************************************************)
Stores == {"shop.example", "www.shop.example"}

\* hosts of addresses the client can build no request for
InvalidHosts == {"shop.example:port"}

\* "hosts" of addresses whose scheme is neither http nor https (mailto:...)
UnsupportedHosts == {"mailto:"}

Href(h, p) == [host |-> h, path |-> p, query |-> ""]

urljoin(base, href) == IF href.host = "" THEN [href EXCEPT !.host = base] ELSE href

\* pydantic's HttpUrl accepts http and https addresses only
IsHttpUrl(url) == url.host \notin UnsupportedHosts /\ url.host \notin InvalidHosts

(***************************************************************************)
(* The storefront: the hosts that serve it (site.hosts) and its pages by   *)
(* path (site.pages).  A page is what a GET of its address answers:        *)
(*   status   "ok", "http_error" (a 4xx or 5xx status), "connect_error"    *)
(*   body     whether the parsed document has a <body>                     *)
(*   main     the lines of text of its <main> element, None without one    *)
(*   anchors  its <a> elements, in document order                          *)
(*   items    the elements the accordion selector matches, in order        *)
(*   mails    the matches of the e-mail pattern in its text                *)
(*   phones   the matches of the phone pattern in its text                 *)
(*   json     what its body is as JSON: "object", "array" (JSON, but not   *)
(*            an object) or "not_json"                                     *)
(*   entries  the "products" of the object                                 *)
(***************************************************************************)
Page(st, b, m, as, is) ==
    [status |-> st, body |-> b, main |-> m, anchors |-> as, items |-> is,
     mails |-> <<>>, phones |-> <<>>, json |-> "not_json", entries |-> <<>>]

ErrorPage(st) == Page(st, FALSE, None, <<>>, <<>>)

\* a page of text: a <main> with the lines t
TextPage(t) == Page("ok", TRUE, Some(t), <<>>, <<>>)

\* a document with a <body> and no <main>
BarePage == Page("ok", TRUE, None, <<>>, <<>>)

\* an empty response: the parser builds neither <body> nor <main>
EmptyPage == Page("ok", FALSE, None, <<>>, <<>>)

(***************************************************************************)
(* An anchor:                                                              *)
(*   text    its visible text          href    its href                   *)
(*   words   the link_map keywords its text holds as words                 *)
(*   social  the social keywords its href holds                            *)
(*   region  "main", "section" or "other": the element it sits in          *)
(*   hrefq   whether its href matches (faq|question|/a/)                   *)
(*   qmark   whether its text holds a question mark                        *)
(*   long    whether its stripped text has more than 5 characters          *)
(***************************************************************************)
Anchor(t, h, w, reg) ==
    [text |-> t, href |-> h, words |-> w, social |-> {}, region |-> reg,
     hrefq |-> FALSE, qmark |-> FALSE, long |-> TRUE]

PageAt(addr) ==
    IF addr.host \in site.hosts /\ addr.path \in DOMAIN site.pages
    THEN site.pages[addr.path]
    ELSE ErrorPage("http_error")

(***************************************************************************)
(* httpx.AsyncClient.get, with the raise_for_status() that follows it at   *)
(* both call sites: the exception raised ("none" if none) and the page.    *)
(***************************************************************************)
ClientGet(addr, open) ==
    IF ~open THEN [raised |-> "RuntimeError", page |-> ErrorPage("connect_error")]
    ELSE IF addr.host \in InvalidHosts
    THEN [raised |-> "InvalidURL", page |-> ErrorPage("connect_error")]
    ELSE IF addr.host \in UnsupportedHosts
    THEN [raised |-> "UnsupportedProtocol", page |-> ErrorPage("connect_error")]
    ELSE LET page == PageAt(addr)
         IN  IF page.status = "connect_error"
             THEN [raised |-> "ConnectError", page |-> page]
             ELSE IF page.status = "http_error"
             THEN [raised |-> "HTTPStatusError", page |-> page]
             ELSE [raised |-> "none", page |-> page]

\* the exceptions _get_soup turns into the absent result
SoupCaught == {"RequestError", "HTTPStatusError"}

(***************************************************************************)
(* _get_soup: raised is the exception that leaves it ("none" if none), ok  *)
(* whether it returns a document, soup the document.                       *)
(***************************************************************************)
GetSoup(addr, open) ==
    LET resp == ClientGet(addr, open)
    IN  IF resp.raised = "none"
        THEN [raised |-> "none", ok |-> TRUE, soup |-> resp.page]
        ELSE IF IsInstance(resp.raised, SoupCaught)
        THEN [raised |-> "none", ok |-> FALSE, soup |-> resp.page]
        ELSE [raised |-> resp.raised, ok |-> FALSE, soup |-> resp.page]

(***************************************************************************)
(* re.sub(r'\n{3,}', '\n\n', text) on a text given as its lines: a run of  *)
(* two or more empty lines becomes one empty line.                         *)
(***************************************************************************)
RECURSIVE CleanLines(_)
CleanLines(t) ==
    IF Len(t) < 3 THEN t
    ELSE IF t[2] = "" /\ t[3] = "" THEN CleanLines(<<t[1]>> \o Tail(Tail(t)))
    ELSE <<t[1]>> \o CleanLines(Tail(t))

(***************************************************************************)
(* _fetch_and_format_page_content: raised, and content (None, or the       *)
(* cleaned text of the page's <main>).                                     *)
(***************************************************************************)
FetchAndFormat(addr, open) ==
    LET r == GetSoup(addr, open)
    IN  IF r.raised # "none" THEN [raised |-> r.raised, ok |-> FALSE, content |-> None]
        ELSE IF ~r.ok THEN [raised |-> "none", ok |-> FALSE, content |-> None]
        ELSE IF ~IsSome(r.soup.main) THEN [raised |-> "none", ok |-> TRUE, content |-> None]
        ELSE [raised |-> "none", ok |-> TRUE, content |-> Some(CleanLines(r.soup.main[1]))]

\* Python's truth of an Optional[str]: neither None nor the empty string
Truthy(content) == IsSome(content) /\ content[1] # <<>>

(***************************************************************************)
(* The catalog feed is the page at /products.json.  An entry of it is      *)
(* [id, title, vendor, variants]; title is None when the key is missing; a *)
(* variant is [price], the raw JSON value of its price:                    *)
(* [kind |-> "number", cents], "text" (a string that is no number),        *)
(* "null" or "absent" (no such key).                                       *)
(***************************************************************************)
FeedPage(st, js, es) ==
    [Page(st, FALSE, None, <<>>, <<>>) EXCEPT !.json = js, !.entries = es]

ProductsUrl(base) == Href(base, <<"products.json">>)

Number(c) == [kind |-> "number", cents |-> c]

Raw(k) == [kind |-> k, cents |-> 0]

\* float(variants[0].get('price', 0.0))
Float(raw) ==
    CASE raw.kind = "number" -> [raised |-> "none", value |-> raw.cents]
      [] raw.kind = "absent" -> [raised |-> "none", value |-> 0]
      [] raw.kind = "text" -> [raised |-> "ValueError", value |-> 0]
      [] OTHER -> [raised |-> "TypeError", value |-> 0]

\* app.models.Product: the required fields must be there
ProductModel(id, title, vendor, price) ==
    IF ~IsSome(title)
    THEN [raised |-> "ValidationError",
          product |-> [id |-> id, title |-> "", vendor |-> vendor, price |-> price]]
    ELSE [raised |-> "none",
          product |-> [id |-> id, title |-> title[1], vendor |-> vendor, price |-> price]]

\* the body of the loop of _fetch_product_catalog, for one entry
ParseEntry(e) ==
    LET price == IF e.variants # <<>> THEN Float(e.variants[1].price)
                 ELSE [raised |-> "none", value |-> 0]
        made == ProductModel(e.id, e.title, e.vendor, price.value)
    IN  IF price.raised # "none" THEN [made EXCEPT !.raised = price.raised]
        ELSE made

\* the loop of _fetch_product_catalog: the products appended and the
\* exception that ended it ("none" when it ran to the end)
RECURSIVE ParseEntries(_, _)
ParseEntries(entries, acc) ==
    IF entries = <<>> THEN [raised |-> "none", products |-> acc]
    ELSE LET one == ParseEntry(Head(entries))
         IN  IF one.raised # "none" THEN [raised |-> one.raised, products |-> acc]
             ELSE ParseEntries(Tail(entries), Append(acc, one.product))

\* the exceptions _fetch_product_catalog catches
CatalogCaught == {"RequestError", "ValueError", "KeyError"}

(***************************************************************************)
(* _fetch_product_catalog: the products appended to the record and the     *)
(* exception that leaves the reader ("none" if none).                      *)
(***************************************************************************)
FetchProductCatalog(base, open) ==
    LET resp == ClientGet(ProductsUrl(base), open)
        tried ==
            IF resp.raised # "none" THEN [raised |-> resp.raised, products |-> <<>>]
            ELSE IF resp.page.json = "not_json"
            THEN [raised |-> "JSONDecodeError", products |-> <<>>]
            ELSE IF resp.page.json = "array"
            THEN [raised |-> "AttributeError", products |-> <<>>]
            ELSE ParseEntries(resp.page.entries, <<>>)
    IN  IF IsInstance(tried.raised, CatalogCaught)
        THEN [tried EXCEPT !.raised = "none"]
        ELSE tried

(***************************************************************************)
(* The record a run builds (app.models.BrandInsights).  Maps are functions *)
(* over the keys set so far; the lists the code builds from a set are sets.*)
(***************************************************************************)
EmptyMap == [k \in {} |-> None]

Put(m, k, v) == [x \in DOMAIN m \cup {k} |-> IF x = k THEN v ELSE m[x]]

BrandInsights(url) ==
    [store_url |-> url,
     product_catalog |-> <<>>,
     hero_products |-> {},
     policies |-> EmptyMap,
     faqs |-> <<>>,
     social_handles |-> EmptyMap,
     emails |-> {},
     phone_numbers |-> {},
     brand_context |-> None,
     important_links |-> EmptyMap]

(***************************************************************************)
(* _extract_social_handles: each anchor sets the entry of the first        *)
(* keyword of the list that its href holds.                                *)
(***************************************************************************)
SocialKeywords == <<"instagram", "facebook", "twitter", "pinterest", "youtube", "tiktok">>

FirstKeyword(a) ==
    LET hits == {i \in 1..Len(SocialKeywords) : SocialKeywords[i] \in a.social}
    IN  IF hits = {} THEN 0 ELSE CHOOSE i \in hits : \A j \in hits : i <= j

\* (a scan that keeps the entry a keyword has already: first-write-wins)
RECURSIVE ExtractSocialHandlesKeepingFirst(_, _, _)
ExtractSocialHandlesKeepingFirst(anchors, base, handles) ==
    IF anchors = <<>> THEN handles
    ELSE LET a == Head(anchors)
             k == FirstKeyword(a)
         IN  ExtractSocialHandlesKeepingFirst(Tail(anchors), base,
                 IF k = 0 \/ SocialKeywords[k] \in DOMAIN handles THEN handles
                 ELSE Put(handles, SocialKeywords[k], urljoin(base, a.href)))

RECURSIVE ExtractSocialHandles(_, _, _)
ExtractSocialHandles(anchors, base, handles) ==
    IF anchors = <<>> THEN handles
    ELSE LET a == Head(anchors)
             k == FirstKeyword(a)
         IN  ExtractSocialHandles(Tail(anchors), base,
                 IF k = 0 THEN handles
                 ELSE Put(handles, SocialKeywords[k], urljoin(base, a.href)))

(***************************************************************************)
(* _extract_contact_details.  A match of the phone pattern is what         *)
(* re.findall returns for a pattern with two groups: the pair of the       *)
(* groups' texts, each a sequence of characters (a digit 0..9, or -1 for   *)
(* any other character); the text the pattern matches after the groups is  *)
(* `rest` and is in no group.                                              *)
(***************************************************************************)
Digits(chars) == SelectSeq(chars, LAMBDA c : c >= 0)

CleanPhone(m) == Digits(m.g1 \o m.g2)

ExtractPhones(matches) ==
    {CleanPhone(matches[i]) : i \in {j \in 1..Len(matches) : Len(CleanPhone(matches[j])) >= 10}}

ExtractEmails(matches) == {matches[i] : i \in 1..Len(matches)}

(***************************************************************************)
(* _extract_hero_products: the handles of the anchors in <main> or a       *)
(* <section> whose href holds '/products/': what follows its last          *)
(* occurrence, without the query.                                          *)
(***************************************************************************)
ProductAt(path) == {i \in 1..(Len(path) - 1) : path[i] = "products"}

Handle(path) ==
    LET i == CHOOSE k \in ProductAt(path) : \A j \in ProductAt(path) : j <= k
    IN  SubSeq(path, i + 1, Len(path))

ExtractHeroProducts(soup) ==
    {Handle(soup.anchors[i].href.path) :
        i \in {j \in 1..Len(soup.anchors) :
                 /\ soup.anchors[j].region \in {"main", "section"}
                 /\ ProductAt(soup.anchors[j].href.path) # {}}}

(***************************************************************************)
(* The first loop of _extract_links_and_policies: for each keyword of      *)
(* link_map, in its order, the first anchor whose text holds the keyword.  *)
(***************************************************************************)
link_map ==
    << <<"privacy", "Privacy Policy">>, <<"refund", "Refund Policy">>,
       <<"return", "Return Policy">>, <<"terms", "Terms of Service">>,
       <<"shipping", "Shipping Policy">>, <<"faq", "FAQs">>,
       <<"contact", "Contact Us">>, <<"about", "About Us">>,
       <<"track", "Order Tracking">>, <<"blog", "Blogs">> >>

\* 'Policy' in name or 'Service' in name
IsPolicyName(name) ==
    name \in {"Privacy Policy", "Refund Policy", "Return Policy",
              "Terms of Service", "Shipping Policy"}

FirstAnchor(anchors, keyword) ==
    LET hits == {i \in 1..Len(anchors) : keyword \in anchors[i].words}
    IN  IF hits = {} THEN 0 ELSE CHOOSE i \in hits : \A j \in hits : i <= j

RECURSIVE FoundLinks(_, _, _)
FoundLinks(soup, base, k) ==
    IF k > Len(link_map) THEN <<>>
    ELSE LET i == FirstAnchor(soup.anchors, link_map[k][1])
         IN  IF i = 0 THEN FoundLinks(soup, base, k + 1)
             ELSE <<[name |-> link_map[k][2], url |-> urljoin(base, soup.anchors[i].href)]>>
                  \o FoundLinks(soup, base, k + 1)

(***************************************************************************)
(* The accordion tier of _scrape_faqs.  An item the selector matches is    *)
(*   q      what holds its question: "heading" (an h2, h3, h4, strong or   *)
(*          b element), "button" (an element with role=button), "summary"  *)
(*          (a <summary> holding text only) or "none"                      *)
(*   qtext  the question's text                                            *)
(*   a      what holds its answer: "classed" (a div or p whose class       *)
(*          matches content|answer|body|panel), "sibling" (a div or p that *)
(*          is a following sibling of the question's element), "child"     *)
(*          (any other div or p of the item) or "none"                     *)
(*   atext  the answer's lines                                             *)
(***************************************************************************)
Item(q, qt, a, at) == [q |-> q, qtext |-> qt, a |-> a, atext |-> at]

\* item.find(['h2', 'h3', 'h4', 'strong', 'b']) or item.find(role='button')
HasQuestionTag(item) == item.q \in {"heading", "button"}

\* the classed answer, else the question's next sibling
HasAnswerTag(item) ==
    \/ item.a = "classed"
    \/ HasQuestionTag(item) /\ item.a = "sibling"

IsTemplate(qtext) == qtext = "your-question-here"

KeepsPair(item) ==
    /\ HasQuestionTag(item)
    /\ HasAnswerTag(item)
    /\ item.qtext # ""
    /\ item.atext # <<>>
    /\ ~IsTemplate(item.qtext)

Pair(q, a) == [question |-> q, answer |-> a]

RECURSIVE AccordionPairs(_)
AccordionPairs(items) ==
    IF items = <<>> THEN <<>>
    ELSE (IF KeepsPair(Head(items))
          THEN <<Pair(Head(items).qtext, Head(items).atext)>>
          ELSE <<>>) \o AccordionPairs(Tail(items))

(***************************************************************************)
(* The linked-question tier: the anchors of the main area (<main>, else    *)
(* <body>) whose href matches; if there is none, those whose text holds a  *)
(* question mark; of these, the ones the loop fetches (text longer than 5).*)
(***************************************************************************)
HasMainArea(soup) == IsSome(soup.main) \/ soup.body

MainAreaAnchors(soup) ==
    IF IsSome(soup.main)
    THEN SelectSeq(soup.anchors, LAMBDA a : a.region = "main")
    ELSE soup.anchors

QuestionLinks(soup) ==
    LET area == MainAreaAnchors(soup)
        byHref == SelectSeq(area, LAMBDA a : a.hrefq)
    IN  IF byHref # <<>> THEN byHref
        ELSE SelectSeq(area, LAMBDA a : a.qmark)

FetchedLinks(links) == SelectSeq(links, LAMBDA a : a.text # "" /\ a.long)

FallbackQuestion == "General FAQ Page Content"

(***************************************************************************)
(* A run of the scraper: where it stands (pc) and its locals.              *)
(*   pc        "catalog", "home", "links", "faq_page", "faq_links",        *)
(*             "faq_fallback", "finally", "returned", "raised", "done"     *)
(*   exc       the exception on its way out of run() ("none" if none)      *)
(*   soup      the homepage                                                *)
(*   found     found_links, from the one being handled on                  *)
(*   qlinks    the question links still to fetch                           *)
(*   faqs_list the pairs of the tier that is running                       *)
(*   log       the GETs issued so far: the address, whether it failed,     *)
(*             and whether the client was closed already                   *)
(*   response  the answer of the request handler                           *)
(***************************************************************************)
NoResponse == [status |-> 0, detail |-> "none"]

Idle ==
    [pc |-> "idle", base_url |-> "", insights |-> BrandInsights(""), exc |-> "none",
     soup |-> EmptyPage, found |-> <<>>, qlinks |-> <<>>, faqs_list |-> <<>>,
     log |-> <<>>, response |-> NoResponse]

\* (a record class whose list default is one object shared by its instances:
\* a new record starts with what the first run has appended to it)
ShopifyScraperSharingDefaults(url) ==
    [Idle EXCEPT !.pc = "catalog", !.base_url = url,
                 !.insights = [BrandInsights(url) EXCEPT
                                  !.product_catalog = runs[1].insights.product_catalog]]

\* ShopifyScraper.__init__
ShopifyScraper(url) == [Idle EXCEPT !.pc = "catalog", !.base_url = url,
                                    !.insights = BrandInsights(url)]

Logged(s, addr, failed, open) ==
    [s EXCEPT !.log = Append(@, [addr |-> addr, failed |-> failed, closed |-> ~open])]

\* (a run() without its finally clause: the exception leaves at once)
RaiseSkippingFinally(s, e) == [s EXCEPT !.exc = e, !.pc = "raised"]

\* an exception on its way out of the try block of run()
Raise(s, e) == [s EXCEPT !.exc = e, !.pc = "finally"]

\* run(), from its start to the await of the homepage
StepCatalog(s, open) ==
    LET c == FetchProductCatalog(s.base_url, open)
        got == ClientGet(ProductsUrl(s.base_url), open)
        t == [Logged(s, ProductsUrl(s.base_url), got.raised # "none", open)
                EXCEPT !.insights.product_catalog = @ \o c.products]
    IN  IF c.raised # "none" THEN Raise(t, c.raised)
        ELSE [t EXCEPT !.pc = "home"]

\* the end of the loop of _extract_links_and_policies, and what run() does
\* after it up to the close of the client
AfterLinks(s) ==
    IF s.found # <<>> THEN [s EXCEPT !.pc = "links"]
    ELSE [s EXCEPT !.insights.hero_products = ExtractHeroProducts(s.soup),
                   !.pc = "finally"]

\* run(), from the answer of the homepage to the next await
StepHome(s, open) ==
    LET r == GetSoup(Href(s.base_url, <<>>), open)
        t == Logged(s, Href(s.base_url, <<>>), ~r.ok, open)
    IN  IF r.raised # "none" THEN Raise(t, r.raised)
        ELSE IF ~r.ok THEN [t EXCEPT !.pc = "finally"]
        ELSE AfterLinks(
               [t EXCEPT !.soup = r.soup,
                         !.insights.social_handles =
                             ExtractSocialHandles(r.soup.anchors, s.base_url, @),
                         !.insights.emails = @ \cup ExtractEmails(r.soup.mails),
                         !.insights.phone_numbers = @ \cup ExtractPhones(r.soup.phones),
                         !.found = FoundLinks(r.soup, s.base_url, 1)])

Pop(s) == [s EXCEPT !.found = Tail(@)]

\* (a loop that records every link under important_links before it looks at
\* the label's kind)
StepLinkRecordingEveryLink(s, open) ==
    LET name == s.found[1].name
        url == s.found[1].url
        c == FetchAndFormat(url, open)
        t == [Logged(s, url, ~c.ok, open) EXCEPT !.insights.important_links = Put(@, name, url)]
    IN  IF c.raised # "none" THEN Raise(t, c.raised)
        ELSE IF name = "About Us"
        THEN AfterLinks(Pop([t EXCEPT !.insights.brand_context = c.content]))
        ELSE IF IsPolicyName(name)
        THEN (IF ~IsHttpUrl(url) THEN Raise(t, "ValidationError")
              ELSE AfterLinks(Pop([t EXCEPT !.insights.policies =
                                       Put(@, name, [url |-> url, content |-> c.content])])))
        ELSE IF name = "FAQs"
        THEN [t EXCEPT !.pc = "faq_page"]
        ELSE AfterLinks(Pop(t))

\* _extract_links_and_policies, from the answer of a link's page to the next await
StepLink(s, open) ==
    LET name == s.found[1].name
        url == s.found[1].url
        c == FetchAndFormat(url, open)
        t == Logged(s, url, ~c.ok, open)
    IN  IF c.raised # "none" THEN Raise(t, c.raised)
        ELSE IF name = "About Us"
        THEN AfterLinks(Pop([t EXCEPT !.insights.brand_context = c.content,
                                      !.insights.important_links = Put(@, name, url)]))
        ELSE IF IsPolicyName(name)
        THEN (IF ~IsHttpUrl(url) THEN Raise(t, "ValidationError")
              ELSE AfterLinks(Pop([t EXCEPT !.insights.policies =
                                       Put(@, name, [url |-> url, content |-> c.content])])))
        ELSE IF name = "FAQs"
        THEN [t EXCEPT !.pc = "faq_page"]
        ELSE AfterLinks(Pop([t EXCEPT !.insights.important_links = Put(@, name, url)]))

\* the return of _scrape_faqs into _extract_links_and_policies
FaqReturn(s, faqs) ==
    AfterLinks(Pop([s EXCEPT !.insights.faqs = faqs,
                             !.insights.important_links = Put(@, "FAQs", s.found[1].url),
                             !.qlinks = <<>>,
                             !.faqs_list = <<>>]))

LinkedQuestions(soup, base) ==
    LET links == FetchedLinks(QuestionLinks(soup))
    IN  [i \in 1..Len(links) |->
            [text |-> links[i].text, url |-> urljoin(base, links[i].href)]]

\* (a _scrape_faqs whose accordion tier does not return: its pairs go on
\* into the linked-question tier)
StepFaqPageFallingThrough(s, open) ==
    LET url == s.found[1].url
        r == GetSoup(url, open)
        t == Logged(s, url, ~r.ok, open)
        pairs == AccordionPairs(r.soup.items)
        links == LinkedQuestions(r.soup, s.base_url)
    IN  IF r.raised # "none" THEN Raise(t, r.raised)
        ELSE IF ~r.ok THEN FaqReturn(t, <<>>)
        ELSE IF ~HasMainArea(r.soup) THEN Raise(t, "AttributeError")
        ELSE IF links = <<>>
        THEN (IF pairs # <<>> THEN FaqReturn(t, pairs) ELSE [t EXCEPT !.pc = "faq_fallback"])
        ELSE [t EXCEPT !.pc = "faq_links", !.qlinks = links, !.faqs_list = pairs]

\* _scrape_faqs, from the answer of the FAQ page to the next await
StepFaqPage(s, open) ==
    LET url == s.found[1].url
        r == GetSoup(url, open)
        t == Logged(s, url, ~r.ok, open)
        pairs == AccordionPairs(r.soup.items)
        links == LinkedQuestions(r.soup, s.base_url)
    IN  IF r.raised # "none" THEN Raise(t, r.raised)
        ELSE IF ~r.ok THEN FaqReturn(t, <<>>)
        ELSE IF pairs # <<>> THEN FaqReturn(t, pairs)
        ELSE IF ~HasMainArea(r.soup) THEN Raise(t, "AttributeError")
        ELSE IF links = <<>> THEN [t EXCEPT !.pc = "faq_fallback"]
        ELSE [t EXCEPT !.pc = "faq_links", !.qlinks = links]

\* the loop of the linked-question tier, from the answer of one linked page
StepFaqLinked(s, open) ==
    LET link == s.qlinks[1]
        c == FetchAndFormat(link.url, open)
        t == Logged(s, link.url, ~c.ok, open)
        list == IF Truthy(c.content)
                THEN Append(s.faqs_list, Pair(link.text, c.content[1]))
                ELSE s.faqs_list
    IN  IF c.raised # "none" THEN Raise(t, c.raised)
        ELSE IF Tail(s.qlinks) # <<>>
        THEN [t EXCEPT !.qlinks = Tail(@), !.faqs_list = list]
        ELSE IF list # <<>> THEN FaqReturn(t, list)
        ELSE [t EXCEPT !.qlinks = <<>>, !.pc = "faq_fallback"]

\* (a fallback that builds its pair whatever the content is)
StepFaqFallbackAlwaysPairing(s, open) ==
    LET url == s.found[1].url
        c == FetchAndFormat(url, open)
        t == Logged(s, url, ~c.ok, open)
    IN  IF c.raised # "none" THEN Raise(t, c.raised)
        ELSE FaqReturn(t, <<Pair(FallbackQuestion, IF IsSome(c.content) THEN c.content[1] ELSE <<>>)>>)

\* the fallback tier
StepFaqFallback(s, open) ==
    LET url == s.found[1].url
        c == FetchAndFormat(url, open)
        t == Logged(s, url, ~c.ok, open)
    IN  IF c.raised # "none" THEN Raise(t, c.raised)
        ELSE IF Truthy(c.content)
        THEN FaqReturn(t, <<Pair(FallbackQuestion, c.content[1])>>)
        ELSE FaqReturn(t, <<>>)

\* the finally clause of run(), and the way run() ends
StepClose(s) == [s EXCEPT !.pc = IF s.exc = "none" THEN "returned" ELSE "raised"]

(***************************************************************************)
(* The tables (app/db_models.py).  A brand row is [id, store_url,          *)
(* brand_name], a product row [id, brand_id, shopify_product_id].  An      *)
(* INTEGER PRIMARY KEY is one more than the largest in the table.          *)
(***************************************************************************)
EmptyDb == [brands |-> {}, products |-> {}]

NextId(rows) ==
    IF rows = {} THEN 1
    ELSE (CHOOSE x \in rows : \A y \in rows : y.id <= x.id).id + 1

\* the INSERTs of the flush: shopify_product_id is unique
RECURSIVE InsertProducts(_, _, _)
InsertProducts(rows, catalog, brand_id) ==
    IF catalog = <<>> THEN [raised |-> "none", rows |-> rows]
    ELSE IF \E p \in rows : p.shopify_product_id = Head(catalog).id
    THEN [raised |-> "IntegrityError", rows |-> rows]
    ELSE InsertProducts(
             rows \cup {[id |-> NextId(rows), brand_id |-> brand_id,
                         shopify_product_id |-> Head(catalog).id]},
             Tail(catalog), brand_id)

(***************************************************************************)
(* save_brand_insights: the exception it raises ("none" if none) and the   *)
(* tables after it.  A failed commit leaves the tables as they were: the   *)
(* session is closed without a commit.                                     *)
(***************************************************************************)
SaveBrandInsights(d, insights) ==
    LET existing == {b \in d.brands : b.store_url = insights.store_url}
        isNew == existing = {}
        \* the brand's id at the DELETE: a new brand has none yet (0)
        filter_id == IF isNew THEN 0 ELSE (CHOOSE b \in existing : TRUE).id
        brand_id == IF isNew THEN NextId(d.brands) ELSE filter_id
        brand_name == IF insights.product_catalog # <<>>
                      THEN insights.product_catalog[1].vendor ELSE "Unknown"
        kept == {p \in d.products : p.brand_id # filter_id}
        ins == InsertProducts(kept, insights.product_catalog, brand_id)
    IN  IF ins.raised # "none" THEN [raised |-> ins.raised, db |-> d]
        ELSE [raised |-> "none",
              db |-> [brands |-> (d.brands \ existing) \cup
                                   {[id |-> brand_id, store_url |-> insights.store_url,
                                     brand_name |-> brand_name]},
                      products |-> ins.rows]]

(***************************************************************************)
(* get_store_insights, after run() has ended: the except clauses, in       *)
(* order, applied to an exception raised in the try block; `own` is the    *)
(* response the exception stands for when no clause catches it.            *)
(***************************************************************************)
Response(st, d) == [status |-> st, detail |-> d]

HandlerExcept(e, own) ==
    IF IsInstance(e, {"RequestError"}) THEN Response(404, "connect")
    ELSE IF IsInstance(e, {"Exception"}) THEN Response(500, "internal")
    ELSE own

\* (a handler that saves the record before it looks at the catalog)
GetStoreInsightsSavingFirst(s, d) ==
    IF s.pc = "raised"
    THEN [response |-> HandlerExcept(s.exc, Response(500, "unhandled")), db |-> d, saves |-> FALSE]
    ELSE LET out == SaveBrandInsights(d, s.insights)
         IN  IF out.raised # "none"
             THEN [response |-> HandlerExcept(out.raised, Response(500, "unhandled")),
                   db |-> d, saves |-> TRUE]
             ELSE IF s.insights.product_catalog = <<>>
             THEN [response |-> HandlerExcept("HTTPException", Response(404, "catalog")),
                   db |-> out.db, saves |-> TRUE]
             ELSE [response |-> Response(200, "insights"), db |-> out.db, saves |-> TRUE]

\* the response, the tables after it, and whether save_brand_insights was called
GetStoreInsights(s, d) ==
    IF s.pc = "raised"
    THEN [response |-> HandlerExcept(s.exc, Response(500, "unhandled")), db |-> d, saves |-> FALSE]
    ELSE IF s.insights.product_catalog = <<>>
    THEN [response |-> HandlerExcept("HTTPException", Response(404, "catalog")),
          db |-> d, saves |-> FALSE]
    ELSE LET out == SaveBrandInsights(d, s.insights)
         IN  IF out.raised # "none"
             THEN [response |-> HandlerExcept(out.raised, Response(500, "unhandled")),
                   db |-> d, saves |-> TRUE]
             ELSE [response |-> Response(200, "insights"), db |-> out.db, saves |-> TRUE]

(***************************************************************************)
(* The storefronts the model draws from.                                   *)
(***************************************************************************)
Seqs(S, n) == UNION {[1..k -> S] : k \in 0..n}

\* catalog entries: well-formed (two variants, of different prices), without
\* variants, without a title, with a null price, with a price that is no
\* number, with a price below zero
Entry(k) ==
    [id |-> 0, title |-> IF k = "no_title" THEN None ELSE Some("Tee"),
     vendor |-> "Acme",
     variants |-> CASE k = "no_variants" -> <<>>
                    [] k = "null_price" -> <<[price |-> Raw("null")]>>
                    [] k = "text_price" -> <<[price |-> Raw("text")]>>
                    [] k = "negative_price" -> <<[price |-> Number(-500)]>>
                    [] OTHER -> <<[price |-> Number(1999)], [price |-> Number(2999)]>>]

EntryKinds ==
    {"good", "no_variants", "no_title", "null_price", "text_price", "negative_price"}

\* the entries of a feed: the product ids are distinct (100 + position)
Entries(kinds) == [i \in 1..Len(kinds) |-> [Entry(kinds[i]) EXCEPT !.id = 100 + i]]

WellFormed(e) ==
    /\ IsSome(e.title)
    /\ \/ e.variants = <<>>
       \/ e.variants[1].price.kind \in {"number", "absent"}

Feeds(n) ==
    {ErrorPage("connect_error"), ErrorPage("http_error"),
     FeedPage("ok", "not_json", <<>>), FeedPage("ok", "array", <<>>)}
    \cup {FeedPage("ok", "object", Entries(ks)) : ks \in Seqs(EntryKinds, n)}

GoodFeed == FeedPage("ok", "object", Entries(<<"good">>))

\* homepage anchors
aHero == Anchor("Tee", Href("", <<"products", "tee">>), {}, "main")

aInstagram ==
    [Anchor("Instagram", Href("instagram.com", <<"shop">>), {}, "other")
        EXCEPT !.social = {"instagram"}]

aFaq == Anchor("FAQ", Href("", <<"pages", "faq">>), {"faq"}, "other")

aContact == Anchor("Contact", Href("", <<"pages", "contact">>), {"contact"}, "other")

aPrivacy == Anchor("Privacy Policy", Href("", <<"pages", "privacy">>), {"privacy"}, "other")

\* a policy link that is a mailto: address
aPrivacyMail == Anchor("Privacy Policy", Href("mailto:", <<"privacy">>), {"privacy"}, "other")

\* a link whose address has a port that is no number
aContactPort == Anchor("Contact", Href("shop.example:port", <<"contact">>), {"contact"}, "other")

HomePage(as) == Page("ok", TRUE, Some(<<"Welcome">>), as, <<>>)

Homes ==
    {ErrorPage("connect_error"), ErrorPage("http_error")}
    \cup {HomePage(top \o first \o faq) :
            top \in {<<>>, <<aHero, aInstagram>>},
            first \in {<<>>, <<aPrivacy>>, <<aPrivacyMail>>, <<aContact>>, <<aContactPort>>},
            faq \in {<<>>, <<aFaq>>}}

\* accordion items
GoodItem == Item("heading", "Q1", "classed", <<"A1">>)

\* <details><summary>Q</summary><p>A</p></details>
DetailsItem == Item("summary", "Q2", "child", <<"A2">>)

TemplateItem == Item("heading", "your-question-here", "classed", <<"A3">>)

\* anchors of an FAQ page, in its <main>
aQuestion1 ==
    [Anchor("How do I return?", Href("", <<"pages", "q1">>), {}, "main")
        EXCEPT !.hrefq = TRUE, !.qmark = TRUE]

aQuestion2 ==
    [Anchor("Where is my parcel?", Href("", <<"pages", "q2">>), {}, "main")
        EXCEPT !.qmark = TRUE]

aShort ==
    [Anchor("FAQ", Href("", <<"pages", "faq">>), {}, "main")
        EXCEPT !.hrefq = TRUE, !.long = FALSE]

FaqPage(m, is, as) == Page("ok", TRUE, m, as, is)

Site(feed, home, faq, privacy, q1, q2) ==
    [hosts |-> {"shop.example"},
     pages |-> (<<"products.json">> :> feed) @@ (<<>> :> home)
              @@ (<<"pages", "faq">> :> faq) @@ (<<"pages", "privacy">> :> privacy)
              @@ (<<"pages", "contact">> :> TextPage(<<"Write to us">>))
              @@ (<<"pages", "q1">> :> q1) @@ (<<"pages", "q2">> :> q2)]

\* storefronts for the orchestration: every feed, every homepage, a few FAQ pages
CoarseFaqPages ==
    {ErrorPage("connect_error"), EmptyPage,
     FaqPage(Some(<<"All about us">>), <<GoodItem>>, <<>>),
     FaqPage(Some(<<"All about us">>), <<>>, <<aQuestion1>>),
     FaqPage(Some(<<"All about us">>), <<>>, <<>>)}

Sites ==
    {Site(feed, home, faq, privacy, TextPage(<<"Within 30 days">>), ErrorPage("http_error")) :
        feed \in Feeds(MaxEntries), home \in Homes, faq \in CoarseFaqPages,
        privacy \in {TextPage(<<"We keep", "", "", "nothing">>), ErrorPage("http_error")}}

(***************************************************************************)
(* The actions.  Each run has a client of its own (__init__), which the    *)
(* run closes in the finally clause of run().                              *)
(***************************************************************************)
\* (one client for all runs, as a class attribute would be)
SharedClient(r) == 1

ClientOf(r) == r

Open(r) == client[ClientOf(r)] = "open"

Called(insights, raised) ==
    Some([catalog |-> insights.product_catalog, raised |-> raised])

\* a request arrives: get_store_insights builds the scraper and calls run()
StartRequest(r) ==
    /\ runs[r].pc = "idle"
    /\ \E u \in site.hosts : runs' = [runs EXCEPT ![r] = ShopifyScraper(u)]
    /\ client' = [client EXCEPT ![ClientOf(r)] = "open"]
    /\ UNCHANGED <<site, db, saved>>

FetchCatalog(r) ==
    /\ runs[r].pc = "catalog"
    /\ runs' = [runs EXCEPT ![r] = StepCatalog(runs[r], Open(r))]
    /\ UNCHANGED <<site, client, db, saved>>

FetchHomepage(r) ==
    /\ runs[r].pc = "home"
    /\ runs' = [runs EXCEPT ![r] = StepHome(runs[r], Open(r))]
    /\ UNCHANGED <<site, client, db, saved>>

FetchLink(r) ==
    /\ runs[r].pc = "links"
    /\ runs' = [runs EXCEPT ![r] = StepLink(runs[r], Open(r))]
    /\ UNCHANGED <<site, client, db, saved>>

FetchFaqPage(r) ==
    /\ runs[r].pc = "faq_page"
    /\ runs' = [runs EXCEPT ![r] = StepFaqPage(runs[r], Open(r))]
    /\ UNCHANGED <<site, client, db, saved>>

FetchLinkedQuestion(r) ==
    /\ runs[r].pc = "faq_links"
    /\ runs' = [runs EXCEPT ![r] = StepFaqLinked(runs[r], Open(r))]
    /\ UNCHANGED <<site, client, db, saved>>

FetchFallback(r) ==
    /\ runs[r].pc = "faq_fallback"
    /\ runs' = [runs EXCEPT ![r] = StepFaqFallback(runs[r], Open(r))]
    /\ UNCHANGED <<site, client, db, saved>>

CloseClient(r) ==
    /\ runs[r].pc = "finally"
    /\ runs' = [runs EXCEPT ![r] = StepClose(runs[r])]
    /\ client' = [client EXCEPT ![ClientOf(r)] = "closed"]
    /\ UNCHANGED <<site, db, saved>>

\* run() has ended: the rest of get_store_insights
Respond(r) ==
    /\ runs[r].pc \in {"returned", "raised"}
    /\ LET out == GetStoreInsights(runs[r], db)
       IN  /\ runs' = [runs EXCEPT ![r].pc = "done", ![r].response = out.response]
           /\ db' = out.db
           /\ saved' = IF out.saves
                       THEN [saved EXCEPT ![runs[r].base_url] =
                                Called(runs[r].insights,
                                       SaveBrandInsights(db, runs[r].insights).raised)]
                       ELSE saved
    /\ UNCHANGED <<site, client>>

Request(r) ==
    \/ StartRequest(r)
    \/ FetchCatalog(r)
    \/ FetchHomepage(r)
    \/ FetchLink(r)
    \/ FetchFaqPage(r)
    \/ FetchLinkedQuestion(r)
    \/ FetchFallback(r)
    \/ CloseClient(r)
    \/ Respond(r)

InitWith(sites) ==
    /\ site \in sites
    /\ runs = [r \in RunIds |-> Idle]
    /\ client = [r \in RunIds |-> "none"]
    /\ db = EmptyDb
    /\ saved = [u \in Stores |-> None]

\* one request, against any storefront of Sites
Init == InitWith(Sites)

Next == \E r \in {1} : Request(r)

Spec == Init /\ [][Next]_vars

\* storefronts for the FAQ extractor: a good feed, a homepage that links to
\* the FAQ page, and every FAQ page of up to MaxItems accordion candidates
\* and MaxLinks anchors
FaqPages ==
    {ErrorPage("http_error"), EmptyPage}
    \cup {FaqPage(m, is, as) :
            m \in {None, Some(<<>>), Some(<<"Help">>)},
            is \in Seqs({GoodItem, DetailsItem, TemplateItem}, MaxItems),
            as \in Seqs({aQuestion1, aQuestion2, aShort}, MaxLinks)}

FaqSites ==
    {Site(GoodFeed, HomePage(<<aHero, aFaq>>), faq, ErrorPage("http_error"), q1, q2) :
        faq \in FaqPages,
        q1 \in {TextPage(<<"Within 30 days">>), ErrorPage("http_error")},
        q2 \in {TextPage(<<"On its way">>), BarePage}}

InitFaq == InitWith(FaqSites)

SpecFaq == InitFaq /\ [][Next]_vars

(***************************************************************************)
(* A run taken alone: run() from the scraper's construction to its end,    *)
(* with a client that stays open until the run closes it.                  *)
(***************************************************************************)
RunStep(s, open) ==
    CASE s.pc = "catalog" -> StepCatalog(s, open)
      [] s.pc = "home" -> StepHome(s, open)
      [] s.pc = "links" -> StepLink(s, open)
      [] s.pc = "faq_page" -> StepFaqPage(s, open)
      [] s.pc = "faq_links" -> StepFaqLinked(s, open)
      [] s.pc = "faq_fallback" -> StepFaqFallback(s, open)
      [] s.pc = "finally" -> StepClose(s)
      [] OTHER -> s

RECURSIVE RunAlone(_)
RunAlone(s) ==
    IF s.pc \in {"idle", "returned", "raised", "done"} THEN s
    ELSE RunAlone(RunStep(s, TRUE))

(***************************************************************************)
(* Two requests at once: the event loop runs one of them from one await to *)
(* the next, then either of them.  The storefront answers on both hosts.   *)
(***************************************************************************)
TwoSites ==
    {[Site(feed, [HomePage(<<aHero, aInstagram, aPrivacy, aFaq>>)
                    EXCEPT !.mails = <<"hi@shop.example">>], faq,
           TextPage(<<"We keep nothing">>), TextPage(<<"Within 30 days">>), BarePage)
        EXCEPT !.hosts = Stores] :
        feed \in {GoodFeed, ErrorPage("http_error")},
        faq \in {FaqPage(Some(<<"Help">>), <<GoodItem>>, <<aQuestion1>>),
                 FaqPage(Some(<<"Help">>), <<>>, <<aQuestion1>>),
                 FaqPage(Some(<<"Help">>), <<>>, <<aQuestion2>>)}}

InitTwo == InitWith(TwoSites)

NextTwo == \E r \in RunIds : Request(r)

SpecTwo == InitTwo /\ [][NextTwo]_vars

(***************************************************************************)
(* save_brand_insights called with any record, any number of times.        *)
(***************************************************************************)
ProductIds == {101, 102}

Catalogs ==
    Seqs({[id |-> i, title |-> "Tee", vendor |-> "Acme", price |-> 1999] : i \in ProductIds},
         MaxCatalog)

SaveCall(u, catalog) ==
    /\ NextId(db.products) + Len(catalog) <= MaxRowId + 1
    /\ LET insights == [BrandInsights(u) EXCEPT !.product_catalog = catalog]
           out == SaveBrandInsights(db, insights)
       IN  /\ db' = out.db
           /\ saved' = [saved EXCEPT ![u] = Called(insights, out.raised)]
    /\ UNCHANGED <<site, runs, client>>

InitDb == InitWith({Site(GoodFeed, ErrorPage("http_error"), EmptyPage, EmptyPage, EmptyPage, EmptyPage)})

NextDb == \E u \in Stores, catalog \in Catalogs : SaveCall(u, catalog)

SpecDb == InitDb /\ [][NextDb]_vars

(***************************************************************************)
(* Storefronts for the homepage stages: a good feed and a homepage of up   *)
(* to MaxSocial links to social networks, or of up to MaxAnchors links to  *)
(* pages of the store, or one whose text holds up to MaxPhones matches of  *)
(* the phone pattern.                                                      *)
(***************************************************************************)
\* a relative link whose path holds the keyword
aInstagramRel ==
    [Anchor("Insta", Href("", <<"instagram">>), {}, "other") EXCEPT !.social = {"instagram"}]

\* an address that holds two keywords: facebook.com/instagram
aFacebookInstagram ==
    [Anchor("Follow us", Href("facebook.com", <<"instagram">>), {}, "other")
        EXCEPT !.social = {"facebook", "instagram"}]

aTiktok ==
    [Anchor("TikTok", Href("tiktok.com", <<"shop">>), {}, "other") EXCEPT !.social = {"tiktok"}]

aAbout == Anchor("About", Href("", <<"pages", "about">>), {"about"}, "other")

aTrack == Anchor("Track your order", Href("", <<"pages", "track">>), {"track"}, "other")

\* one link whose text holds two keywords: "Privacy and Terms"
aPrivacyTerms ==
    Anchor("Privacy and Terms", Href("", <<"pages", "privacy">>), {"privacy", "terms"}, "other")

SocialAnchors == {aInstagram, aInstagramRel, aFacebookInstagram, aTiktok}

StoreAnchors == {aFaq, aContact, aPrivacy, aAbout, aTrack, aPrivacyTerms}

\* matches of the phone pattern, as re.findall splits them:
\*   "5551234567"       -> ('', ''), the ten digits matched after the groups
\*   "+91 98765 43210"  -> ('+91 ', '987'), then "65 43210"
\*   "123456789"        -> ('', ''), the nine digits matched after the groups
PhoneMatch(g1, g2, rest) == [g1 |-> g1, g2 |-> g2, rest |-> rest]

PhoneMatches ==
    {PhoneMatch(<<>>, <<>>, <<5, 5, 5, 1, 2, 3, 4, 5, 6, 7>>),
     PhoneMatch(<<-1, 9, 1, -1>>, <<9, 8, 7>>, <<6, 5, -1, 4, 3, 2, 1, 0>>),
     PhoneMatch(<<>>, <<>>, <<1, 2, 3, 4, 5, 6, 7, 8, 9>>)}

HomeDocuments ==
    {HomePage(socials \o <<aFaq>>) : socials \in Seqs(SocialAnchors, MaxSocial)}
    \cup {HomePage(<<aInstagram>> \o links) : links \in Seqs(StoreAnchors, MaxAnchors)}
    \cup {[HomePage(<<aInstagram>>) EXCEPT !.phones = ps, !.mails = <<"hi@shop.example">>] :
            ps \in Seqs(PhoneMatches, MaxPhones)}

HomeSites ==
    {[Site(GoodFeed, home, faq, TextPage(<<"We keep nothing">>),
           TextPage(<<"Within 30 days">>), BarePage)
        EXCEPT !.pages = @ @@ (<<"pages", "about">> :> TextPage(<<"Since 1999">>))
                           @@ (<<"pages", "track">> :> TextPage(<<"Your order">>))] :
        home \in HomeDocuments,
        faq \in {ErrorPage("http_error"), EmptyPage, BarePage,
                 FaqPage(Some(<<"Help">>), <<GoodItem>>, <<>>),
                 FaqPage(Some(<<"Help">>), <<>>, <<aQuestion1>>),
                 FaqPage(Some(<<"Help">>), <<>>, <<aQuestion2>>)}}

InitHome == InitWith(HomeSites)

SpecHome == InitHome /\ [][Next]_vars

(***************************************************************************)
(* A request that arrives when the tables hold the rows of earlier         *)
(* requests: nothing yet, or the brand and the product saved for one of    *)
(* the two addresses.                                                      *)
(***************************************************************************)
SavedBefore(u) ==
    SaveBrandInsights(EmptyDb,
        [BrandInsights(u) EXCEPT
            !.product_catalog = <<[id |-> 101, title |-> "Tee", vendor |-> "Acme", price |-> 1999]>>]).db

EarlierDbs == {EmptyDb} \cup {SavedBefore(u) : u \in Stores}

StoreSites ==
    {Site(feed, home, faq, TextPage(<<"We keep nothing">>),
          TextPage(<<"Within 30 days">>), ErrorPage("http_error")) :
        feed \in {ErrorPage("connect_error"), ErrorPage("http_error"),
                  FeedPage("ok", "not_json", <<>>), FeedPage("ok", "array", <<>>),
                  FeedPage("ok", "object", <<>>), GoodFeed,
                  FeedPage("ok", "object", Entries(<<"good", "null_price">>))},
        home \in {ErrorPage("connect_error"), HomePage(<<aHero, aFaq>>),
                  HomePage(<<aPrivacyMail>>), HomePage(<<aContactPort>>)},
        faq \in CoarseFaqPages}

InitStore ==
    /\ site \in StoreSites
    /\ runs = [r \in RunIds |-> Idle]
    /\ client = [r \in RunIds |-> "none"]
    /\ db \in EarlierDbs
    /\ saved = [u \in Stores |-> None]

SpecStore == InitStore /\ [][Next]_vars

(***************************************************************************)
(* What the claims speak of.                                               *)
(***************************************************************************)
Ended(s) == s.pc \in {"returned", "raised", "done"}

\* run() has returned its record
Returned(s) == s.pc \in {"returned", "done"} /\ s.exc = "none"

\* how often the run has fetched addr
Fetches(s, addr) == Cardinality({i \in 1..Len(s.log) : s.log[i].addr = addr})

FaqAddr(s) == Href(s.base_url, <<"pages", "faq">>)

FaqDocument == site.pages[<<"pages", "faq">>]

\* the FAQ extractor has been called and has returned
FaqReturned(s) == "FAQs" \in DOMAIN s.insights.important_links

\* what each tier yields for the FAQ page, each taken alone
AccordionTier == AccordionPairs(FaqDocument.items)

RECURSIVE LinkedPairs(_)
LinkedPairs(links) ==
    IF links = <<>> THEN <<>>
    ELSE LET c == FetchAndFormat(Head(links).url, TRUE)
         IN  (IF Truthy(c.content) THEN <<Pair(Head(links).text, c.content[1])>> ELSE <<>>)
             \o LinkedPairs(Tail(links))

LinkedTier(s) == LinkedPairs(LinkedQuestions(FaqDocument, s.base_url))

FallbackTier(s) ==
    LET c == FetchAndFormat(FaqAddr(s), TRUE)
    IN  IF Truthy(c.content) THEN <<Pair(FallbackQuestion, c.content[1])>> ELSE <<>>

FirstTier(s) ==
    IF AccordionTier # <<>> THEN AccordionTier
    ELSE IF LinkedTier(s) # <<>> THEN LinkedTier(s)
    ELSE FallbackTier(s)

LinkedFetches(s) ==
    {i \in 1..Len(s.log) : s.log[i].addr.path \in {<<"pages", "q1">>, <<"pages", "q2">>}}

(***************************************************************************)
(* C1: the tiers of _scrape_faqs run in the order accordion, linked        *)
(* question, fallback; a tier runs only if every tier before it yielded no *)
(* pair, and the pairs returned are those of the first tier that yielded   *)
(* one.  A page with accordion pairs and question links yields the         *)
(* accordion pairs, and no linked page is fetched.                         *)
(***************************************************************************)
C1_FirstTierWithPairsWins ==
    \A r \in RunIds :
        LET s == runs[r]
        IN  /\ s.pc = "faq_links" => AccordionTier = <<>>
            /\ s.pc = "faq_fallback" => AccordionTier = <<>> /\ LinkedTier(s) = <<>>
            /\ LinkedFetches(s) # {} => AccordionTier = <<>>
            /\ Fetches(s, FaqAddr(s)) > 2 => AccordionTier = <<>> /\ LinkedTier(s) = <<>>
            /\ FaqReturned(s) /\ FaqDocument.status = "ok" => s.insights.faqs = FirstTier(s)

\* a page with an accordion pair and a question link: the extractor returned
C1_AccordionAndLinks ==
    \E r \in RunIds :
        /\ FaqReturned(runs[r])
        /\ AccordionTier # <<>>
        /\ LinkedTier(runs[r]) # <<>>
        /\ runs[r].insights.faqs = AccordionTier

(***************************************************************************)
(* C8: a homepage that links to an FAQ page of three <details> elements,   *)
(* each a <summary> and a body: faqs has exactly 3 entries and             *)
(* important_links["FAQs"] is the address of the FAQ page.                 *)
(***************************************************************************)
ThreeDetails == FaqDocument.status = "ok" /\ FaqDocument.items = <<DetailsItem, DetailsItem, DetailsItem>>

C8_ThreeDetailsThreeFaqs ==
    \A r \in RunIds :
        LET s == runs[r]
        IN  ThreeDetails /\ Returned(s)
            => /\ FaqReturned(s)
               /\ s.insights.important_links["FAQs"] = FaqAddr(s)
               /\ Len(s.insights.faqs) = 3

Feed == site.pages[<<"products.json">>]

HomeDocument == site.pages[<<>>]

\* the feed fails as a whole: unreachable, a 4xx or 5xx status, no JSON
FeedFailure == Feed.status # "ok" \/ Feed.json = "not_json"

\* the catalog reader has ended by raising
ReaderRaised(s) == Len(s.log) = 1 /\ s.exc # "none"

PastCatalog(s) == s.pc \notin {"idle", "catalog"}

(***************************************************************************)
(* C2: for every failure of the feed as a whole (no connection, a non-2xx  *)
(* status, a body that is no JSON) the catalog reader leaves the product   *)
(* list empty and raises nothing, and run() goes on to the homepage and    *)
(* fills social_handles and hero_products from it when it is reachable.    *)
(***************************************************************************)
C2_FeedFailureIsSilent ==
    \A r \in RunIds :
        LET s == runs[r]
        IN  FeedFailure /\ PastCatalog(s)
            => /\ s.insights.product_catalog = <<>>
               /\ ~ReaderRaised(s)
               /\ HomeDocument.status = "ok" /\ s.pc # "home"
                  => s.insights.social_handles =
                        ExtractSocialHandles(HomeDocument.anchors, s.base_url, EmptyMap)
               /\ HomeDocument.status = "ok" /\ Returned(s)
                  => s.insights.hero_products = ExtractHeroProducts(HomeDocument)

(***************************************************************************)
(* C3: in run(), the failure of one stage aborts no other stage: run()     *)
(* returns a record, and a stage whose input (the homepage) is there has   *)
(* run.                                                                    *)
(***************************************************************************)
C3_NoStageAbortsTheRun ==
    \A r \in RunIds :
        LET s == runs[r]
        IN  Ended(s)
            => /\ s.pc # "raised"
               /\ HomeDocument.status = "ok"
                  => /\ s.insights.hero_products = ExtractHeroProducts(HomeDocument)
                     /\ s.insights.social_handles =
                           ExtractSocialHandles(HomeDocument.anchors, s.base_url, EmptyMap)

(***************************************************************************)
(* C4: however run() ends, by returning or by an exception of any stage,   *)
(* the run's client has been closed, and the run issues no fetch on a      *)
(* closed client.                                                          *)
(***************************************************************************)
C4_ClientClosedOnEveryExit ==
    \A r \in RunIds :
        LET s == runs[r]
        IN  /\ Ended(s) => client[r] = "closed"
            /\ client[r] = "closed" => Ended(s)
            /\ \A i \in 1..Len(s.log) : ~s.log[i].closed

\* an exception has left run(), and the client is closed
C4_RaisedAndClosed ==
    \E r \in RunIds :
        /\ runs[r].pc = "raised"
        /\ runs[r].exc = "AttributeError"
        /\ client[r] = "closed"

(***************************************************************************)
(* C5: a run with an empty catalog is answered 404 with the catalog        *)
(* message, and the three failures (empty catalog, no connection, internal *)
(* failure) each reach the caller as a response of their own.              *)
(***************************************************************************)
C5_FailuresAnsweredApart ==
    \A r \in RunIds :
        LET s == runs[r]
        IN  s.pc = "done"
            => /\ s.exc = "none" /\ s.insights.product_catalog = <<>>
                  => s.response = Response(404, "catalog")
               /\ IsInstance(s.exc, {"RequestError"})
                  => s.response = Response(404, "connect")
               /\ s.exc # "none" /\ ~IsInstance(s.exc, {"RequestError"})
                  => s.response = Response(500, "internal")

(***************************************************************************)
(* C6: a malformed entry of the feed is skipped alone: every well-formed   *)
(* entry, before it and after it, becomes a Product, and no exception      *)
(* leaves the reader.                                                      *)
(***************************************************************************)
C6_MalformedEntrySkippedAlone ==
    \A r \in RunIds :
        LET s == runs[r]
        IN  Feed.status = "ok" /\ Feed.json = "object" /\ PastCatalog(s)
            => /\ ~ReaderRaised(s)
               /\ \A i \in 1..Len(Feed.entries) :
                     WellFormed(Feed.entries[i])
                     => \E j \in 1..Len(s.insights.product_catalog) :
                           s.insights.product_catalog[j].id = Feed.entries[i].id

(***************************************************************************)
(* C7: _get_soup raises nothing, whatever the address and however the      *)
(* request fails: it returns None then, and a document otherwise.          *)
(***************************************************************************)
C7_GetSoupNeverRaises ==
    \A r \in RunIds :
        \A i \in 2..Len(runs[r].log) :
            LET got == GetSoup(runs[r].log[i].addr, ~runs[r].log[i].closed)
            IN  /\ got.raised = "none"
                /\ got.ok = ~runs[r].log[i].failed

(***************************************************************************)
(* C9: after any calls of save_brand_insights there is at most one brand   *)
(* row per address, the products stored for a brand are those of the       *)
(* record saved last for its address, and no save fails because of the     *)
(* products saved before.                                                  *)
(***************************************************************************)
StoredIds(u) ==
    {p.shopify_product_id :
        p \in {q \in db.products : \E b \in db.brands : b.store_url = u /\ b.id = q.brand_id}}

CatalogIds(catalog) == {catalog[i].id : i \in 1..Len(catalog)}

Distinct(catalog) == Cardinality(CatalogIds(catalog)) = Len(catalog)

C9_SaveReplacesProducts ==
    /\ \A u \in Stores : Cardinality({b \in db.brands : b.store_url = u}) <= 1
    /\ \A u \in Stores :
          IsSome(saved[u]) /\ Distinct(saved[u][1].catalog)
          => /\ saved[u][1].raised = "none"
             /\ StoredIds(u) = CatalogIds(saved[u][1].catalog)
             /\ Cardinality({p \in db.products :
                               \E b \in db.brands : b.store_url = u /\ b.id = p.brand_id})
                  = Len(saved[u][1].catalog)

(***************************************************************************)
(* C10: two runs that interleave at their fetches share no state: each     *)
(* ends with the record it builds when run alone, and the close of one     *)
(* run's client fails no fetch of the other.                               *)
(***************************************************************************)
C10_RunsShareNothing ==
    \A r \in RunIds :
        LET s == runs[r]
            alone == RunAlone(ShopifyScraper(s.base_url))
        IN  /\ \A i \in 1..Len(s.log) : ~s.log[i].closed
            /\ Ended(s) => s.insights = alone.insights /\ s.exc = alone.exc /\ s.log = alone.log

\* one run has closed its client; the other, begun before, has fetches still to issue
C10_OneClosedOtherFetching ==
    \E r \in RunIds, q \in RunIds :
        /\ r # q
        /\ client[r] = "closed"
        /\ runs[r].insights.faqs # <<>>
        /\ runs[q].pc = "faq_page"
        /\ client[q] = "open"

(***************************************************************************)
(* C11: two runs against the same storefront, each with a scraper of its   *)
(* own, end with records whose fields are identical: nothing the one run   *)
(* has collected (products, e-mails, phones, social handles, links, FAQs)  *)
(* is in the other's record besides what that run collected itself.        *)
(***************************************************************************)
C11_RepeatRunsAgree ==
    \A r \in RunIds, q \in RunIds :
        /\ Ended(runs[r])
        /\ Ended(runs[q])
        /\ runs[r].base_url = runs[q].base_url
        => /\ runs[r].insights = runs[q].insights
           /\ runs[r].exc = runs[q].exc

\* the first run has been answered, and the second, against the same address,
\* has returned a record with products, e-mails, handles and FAQs
C11_SecondRunReturned ==
    /\ runs[1].pc = "done"
    /\ runs[1].exc = "none"
    /\ runs[2].pc = "returned"
    /\ runs[1].base_url = runs[2].base_url
    /\ runs[2].insights.product_catalog # <<>>
    /\ runs[2].insights.emails # {}
    /\ DOMAIN runs[2].insights.social_handles # {}
    /\ runs[2].insights.faqs # <<>>

(***************************************************************************)
(* C12: every Product of product_catalog has a price of at least 0; the    *)
(* Product of an entry without variants has price 0, that of an entry with *)
(* variants the price of its first variant; and in a feed of well-formed   *)
(* entries every entry without variants becomes a Product and nothing is   *)
(* raised.                                                                 *)
(***************************************************************************)
EntryOf(id) == CHOOSE e \in {Feed.entries[i] : i \in 1..Len(Feed.entries)} : e.id = id

C12_PriceFromFirstVariant ==
    \A r \in RunIds :
        LET s == runs[r]
            catalog == s.insights.product_catalog
        IN  PastCatalog(s)
            => /\ \A j \in 1..Len(catalog) :
                     LET e == EntryOf(catalog[j].id)
                     IN  /\ catalog[j].price >= 0
                         /\ e.variants = <<>> => catalog[j].price = 0
                         /\ e.variants # <<>> /\ e.variants[1].price.kind = "number"
                            => catalog[j].price = e.variants[1].price.cents
               /\ /\ Feed.status = "ok"
                  /\ Feed.json = "object"
                  /\ \A i \in 1..Len(Feed.entries) : WellFormed(Feed.entries[i])
                  => /\ ~ReaderRaised(s)
                     /\ \A i \in 1..Len(Feed.entries) :
                           Feed.entries[i].variants = <<>>
                           => \E j \in 1..Len(catalog) : catalog[j].id = Feed.entries[i].id

(***************************************************************************)
(* C13: after the scan of the homepage's links, social_handles has an      *)
(* entry for a keyword exactly if some link's address holds it and no      *)
(* keyword before it in the list instagram, facebook, twitter, pinterest,  *)
(* youtube, tiktok; the entry is the absolute address of the last such     *)
(* link.                                                                   *)
(***************************************************************************)
HomeScanned(s) == s.pc \notin {"idle", "catalog", "home"} /\ Len(s.log) >= 2 /\ ~s.log[2].failed

\* the link counts for keyword number k: its address holds it and none before it
CountsFor(a, k) ==
    /\ SocialKeywords[k] \in a.social
    /\ \A j \in 1..(k - 1) : SocialKeywords[j] \notin a.social

LinksFor(k) == {i \in 1..Len(HomeDocument.anchors) : CountsFor(HomeDocument.anchors[i], k)}

IsAbsoluteOf(url, href, base) ==
    /\ url.path = href.path
    /\ url.host = (IF href.host = "" THEN base ELSE href.host)

C13_LastLinkOfKeywordWins ==
    \A r \in RunIds :
        LET s == runs[r]
            handles == s.insights.social_handles
        IN  HomeScanned(s)
            => /\ DOMAIN handles \subseteq {SocialKeywords[k] : k \in 1..Len(SocialKeywords)}
               /\ \A k \in 1..Len(SocialKeywords) :
                     IF LinksFor(k) = {} THEN SocialKeywords[k] \notin DOMAIN handles
                     ELSE /\ SocialKeywords[k] \in DOMAIN handles
                          /\ LET last == CHOOSE i \in LinksFor(k) : \A j \in LinksFor(k) : j <= i
                             IN  IsAbsoluteOf(handles[SocialKeywords[k]],
                                              HomeDocument.anchors[last].href, s.base_url)

\* the homepage has two links for instagram, the last a relative one, after a
\* link whose address holds facebook and instagram
C13_TwoLinksOneKeyword ==
    \E r \in RunIds :
        /\ HomeScanned(runs[r])
        /\ HomeDocument.anchors = <<aInstagram, aFacebookInstagram, aInstagramRel, aFaq>>
        /\ DOMAIN runs[r].insights.social_handles = {"instagram"}
        /\ runs[r].insights.social_handles["instagram"] = Href(runs[r].base_url, <<"instagram">>)

(***************************************************************************)
(* C14: of the candidates the phone pattern matches in the homepage's      *)
(* text, one with nine digits is not in phone_numbers, one with ten or     *)
(* more digits is in phone_numbers as its string of digits, and            *)
(* phone_numbers holds nothing else.                                       *)
(***************************************************************************)
\* the digits of the whole text a match covers
CandidateDigits(m) == Digits(m.g1 \o m.g2 \o m.rest)

C14_TenDigitsRetained ==
    \A r \in RunIds :
        LET s == runs[r]
            candidates == {HomeDocument.phones[i] : i \in 1..Len(HomeDocument.phones)}
        IN  HomeScanned(s)
            => /\ \A m \in candidates :
                     /\ Len(CandidateDigits(m)) >= 10
                        => CandidateDigits(m) \in s.insights.phone_numbers
                     /\ Len(CandidateDigits(m)) = 9
                        => CandidateDigits(m) \notin s.insights.phone_numbers
               /\ s.insights.phone_numbers \subseteq {CandidateDigits(m) : m \in candidates}

(***************************************************************************)
(* C16: a label the homepage resolves that is neither About Us, nor a      *)
(* policy, nor FAQs (Contact Us, Order Tracking, Blogs) is in              *)
(* important_links with its address when run() returns, and the run        *)
(* issues no fetch of that address (unless a label of another kind has the *)
(* same address).                                                          *)
(***************************************************************************)
Resolved(s) == FoundLinks(HomeDocument, s.base_url, 1)

AddressOnly == {"Contact Us", "Order Tracking", "Blogs"}

C16_AddressOnlyLabelsNotFetched ==
    \A r \in RunIds :
        LET s == runs[r]
            found == Resolved(s)
        IN  \A i \in 1..Len(found) :
               found[i].name \in AddressOnly
               => /\ Returned(s) /\ HomeScanned(s)
                     => /\ found[i].name \in DOMAIN s.insights.important_links
                        /\ s.insights.important_links[found[i].name] = found[i].url
                  /\ (\A j \in 1..Len(found) :
                         found[j].url = found[i].url => found[j].name \in AddressOnly)
                     => Fetches(s, found[i].url) = 0

(***************************************************************************)
(* C17: at every point of a run no label is a key of both policies and     *)
(* important_links, and the keys of policies are policy labels; the brand  *)
(* narrative is set only when the homepage resolves About Us, and is the   *)
(* text of that page; faqs is set only when it resolves FAQs; and when     *)
(* run() has returned, every resolved label is a key of exactly one of the *)
(* two maps, with its address.                                             *)
(***************************************************************************)
PolicyLabels ==
    {"Privacy Policy", "Refund Policy", "Return Policy", "Shipping Policy", "Terms of Service"}

ResolvedNames(s) == {Resolved(s)[i].name : i \in 1..Len(Resolved(s))}

UrlOf(s, name) ==
    (CHOOSE l \in {Resolved(s)[i] : i \in 1..Len(Resolved(s))} : l.name = name).url

C17_OneCategoryPerLabel ==
    \A r \in RunIds :
        LET s == runs[r]
            policies == s.insights.policies
            links == s.insights.important_links
        IN  /\ DOMAIN policies \cap DOMAIN links = {}
            /\ DOMAIN policies \subseteq PolicyLabels
            /\ IsSome(s.insights.brand_context)
               => /\ "About Us" \in ResolvedNames(s)
                  /\ s.insights.brand_context = FetchAndFormat(UrlOf(s, "About Us"), TRUE).content
            /\ s.insights.faqs # <<>> => "FAQs" \in ResolvedNames(s)
            /\ Returned(s) /\ HomeScanned(s)
               => /\ DOMAIN policies \cup DOMAIN links = ResolvedNames(s)
                  /\ \A n \in DOMAIN policies : policies[n].url = UrlOf(s, n)
                  /\ \A n \in DOMAIN links : links[n] = UrlOf(s, n)

\* run() has returned for a homepage with a link of two policy labels, an
\* About link and a Contact link
C17_PoliciesAndLinks ==
    \E r \in RunIds :
        /\ Returned(runs[r])
        /\ DOMAIN runs[r].insights.policies = {"Privacy Policy", "Terms of Service"}
        /\ DOMAIN runs[r].insights.important_links = {"About Us", "Contact Us"}
        /\ runs[r].insights.brand_context = Some(<<"Since 1999">>)

(***************************************************************************)
(* C18: when the homepage resolves the FAQs label, the run ends by         *)
(* returning a record whose important_links holds the FAQs address,        *)
(* whatever the FAQ extractor met: pairs, no pair, a page that cannot be   *)
(* fetched, a page that cannot be parsed.                                  *)
(***************************************************************************)
C18_FaqAddressAlwaysRecorded ==
    \A r \in RunIds :
        LET s == runs[r]
        IN  /\ Ended(s)
            /\ HomeScanned(s)
            /\ "FAQs" \in ResolvedNames(s)
            => /\ "FAQs" \in DOMAIN s.insights.important_links
               /\ s.insights.important_links["FAQs"] = UrlOf(s, "FAQs")

(***************************************************************************)
(* C19: for an FAQ page that is fetched and has neither accordion pairs    *)
(* nor question links, the FAQ extractor returns exactly one pair: the     *)
(* question 'General FAQ Page Content' and, as answer, the text of the     *)
(* page.                                                                   *)
(***************************************************************************)
\* the FAQ page is fetched and offers nothing to the first two tiers
NeitherStructure ==
    /\ FaqDocument.status = "ok"
    /\ AccordionTier = <<>>
    /\ QuestionLinks(FaqDocument) = <<>>

C20_NoFetchAfterFailure ==
    \A r \in RunIds :
        LET log == runs[r].log
        IN  \A i \in 1..Len(log) :
               log[i].failed => \A j \in (i + 1)..Len(log) : log[j].addr # log[i].addr

(***************************************************************************)
(* C21: a request whose run is rejected (it raised, or it returned a       *)
(* record with an empty catalog) is answered without a call of             *)
(* save_brand_insights and leaves every row of brands and products as it   *)
(* was; the tables change only in the answer to a run that returned a      *)
(* record with products.                                                   *)
(***************************************************************************)
Rejected(s) == s.exc # "none" \/ s.insights.product_catalog = <<>>

Answering(r) == runs[r].pc \in {"returned", "raised"} /\ runs'[r].pc = "done"

C21_RejectedRunLeavesStore ==
    [][/\ \A r \in RunIds :
             Answering(r) /\ Rejected(runs[r])
             => /\ db' = db
                /\ saved' = saved
                /\ runs'[r].response.status # 200
       /\ db' # db \/ saved' # saved
          => \E r \in RunIds : Answering(r) /\ ~Rejected(runs[r])]_vars

\* a rejected run has been answered, and the rows saved before are there
C21_RejectedAndRowsKept ==
    \E r \in RunIds :
        /\ runs[r].pc = "done"
        /\ runs[r].exc = "none"
        /\ runs[r].insights.product_catalog = <<>>
        /\ db = SavedBefore(runs[r].base_url)
        /\ saved = [u \in Stores |-> None]

====
